---- MODULE Spec2Model ----
(***************************************************************************)
(* Image steganography engine of DataTransformationApp:                    *)
(*   src/encryption/image_steganography.py  (class ImageSteganography)     *)
(*   src/encryption/text_encryption.py      (class TextEncryption)         *)
(*   src/main.py                            (/stego/* endpoints)           *)
(*                                                                         *)
(* A text (Python str) is a sequence of code points.  A bit string (the    *)
(* Python str of '0'/'1' the code builds) is a sequence over {0, 1}.       *)
(* An image is a record [mode, width, height, pixels, coeffs, margin,      *)
(* facets]:                                                                *)
(*   pixels  the raster pixel list that Image.getdata() returns, each      *)
(*           pixel a tuple of samples (3 for RGB, 4 for RGBA, 1 for L);    *)
(*   coeffs  for every complete 8x8 block of the grayscale array, in       *)
(*           raster order, the (2,3) coefficient of its orthonormal DCT;   *)
(*   margin  the grayscale samples outside the complete 8x8 blocks (the    *)
(*           incomplete trailing block column and block row), row-major;   *)
(*   facets  which of these the record carries.  The lsb method reads      *)
(*           and writes pixels only, the dct method coefficients only; a   *)
(*           call is modelled on an image that carries the facet it reads, *)
(*           and its result carries the facet it wrote.                    *)
(* Saving an image as PNG and opening it again is lossless, so image bytes *)
(* are carried as the image record they decode to.                         *)
(***************************************************************************)
EXTENDS Integers, Sequences, FiniteSets, TLC

(***************************************************************************)
(* Bounds of the model.                                                    *)
(***************************************************************************)
\* longest text over Alphabet that a request may carry (besides NamedTexts)
MaxTextLen == 1

(***************************************************************************)
(* Literals of the program.                                                *)
(***************************************************************************)
\* self.delimiter = "###END###"
delimiter == <<35, 35, 35, 69, 78, 68, 35, 35, 35>>

\* the literal "ENCRYPTED:" that tags an encrypted payload
EncryptedTag == <<69, 78, 67, 82, 89, 80, 84, 69, 68, 58>>

\* default of the strength parameter of hide_text_dct / extract_text_dct
DefaultStrength == 10

\* Python's None (a password that was not supplied)
None == "<None>"

(***************************************************************************)
(* Python helpers.                                                         *)
(***************************************************************************)
\* bool(x) of an optional str: None and "" are falsy
Truthy(s) == s # None /\ s # ""

\* str.lower() on the method selectors the model uses
Lower(s) ==
    CASE s = "LSB" -> "lsb"
      [] s = "DCT" -> "dct"
      [] OTHER -> s

RECURSIVE BinDigits(_)
\* the binary digits of n, most significant first, no leading zeros
BinDigits(n) == IF n < 2 THEN <<n>> ELSE Append(BinDigits(n \div 2), n % 2)

\* mutant of Format08b: keeps the low 8 bits only (format(n & 0xFF, '08b'))
Format08b_low_byte(n) ==
    LET d == BinDigits(n % 256)
    IN  [i \in 1..(8 - Len(d)) |-> 0] \o d

\* format(n, '08b'): binary digits, zero-padded on the left to a MINIMUM
\* width of 8; a number above 255 keeps all of its digits
Format08b(n) ==
    LET d == BinDigits(n)
    IN  IF Len(d) >= 8 THEN d ELSE [i \in 1..(8 - Len(d)) |-> 0] \o d

\* list(items): the items as a list, in order (as list(image.getdata())
\* makes one of the pixels)
List(items) == SubSeq(items, 1, Len(items))

RECURSIVE Flatten(_)
\* ''.join(parts)
Flatten(parts) ==
    CASE Len(parts) = 0 -> <<>>
      [] Len(parts) = 1 -> parts[1]
      [] OTHER ->
           LET mid == Len(parts) \div 2
           IN  Flatten(SubSeq(parts, 1, mid))
                   \o Flatten(SubSeq(parts, mid + 1, Len(parts)))

\* int(byte, 2) of an 8-character bit string starting at offset o
ByteAt(binary, o) ==
    128 * binary[o + 1] + 64 * binary[o + 2] + 32 * binary[o + 3]
    + 16 * binary[o + 4] + 8 * binary[o + 5] + 4 * binary[o + 6]
    + 2 * binary[o + 7] + binary[o + 8]

\* needle occurs in text at index i (1-based)
OccursAt(text, needle, i) ==
    /\ i + Len(needle) - 1 <= Len(text)
    /\ \A k \in 1..Len(needle) : text[i + k - 1] = needle[k]

\* needle in text
Contains(text, needle) ==
    \E i \in 1..(Len(text) - Len(needle) + 1) : OccursAt(text, needle, i)

\* text.split(needle)[0] when needle occurs: the text before its first
\* occurrence
SplitFirst(text, needle) ==
    LET first == CHOOSE i \in 1..(Len(text) - Len(needle) + 1) :
                    /\ OccursAt(text, needle, i)
                    /\ \A j \in 1..(i - 1) : ~OccursAt(text, needle, j)
    IN  SubSeq(text, 1, first - 1)

\* text.startswith(prefix)
StartsWith(text, prefix) ==
    Len(text) >= Len(prefix) /\ SubSeq(text, 1, Len(prefix)) = prefix

(***************************************************************************)
(* BitCodec: ImageSteganography._text_to_binary / _binary_to_text          *)
(***************************************************************************)
_text_to_binary(text) ==
    Flatten([i \in 1..Len(text) |-> Format08b(text[i])])

\* mutant of _binary_to_text: the test len(byte) == 8 is missing, so a
\* trailing group shorter than 8 bits also yields a character
_binary_to_text_keeps_tail(binary) ==
    LET bits == List(binary)
        short == Len(bits) % 8
        whole == List([k \in 1..(Len(bits) \div 8) |->
                         ByteAt(bits, 8 * (k - 1))])
    IN  IF short = 0 THEN whole
        ELSE Append(whole, bits[Len(bits) - short + 1])

_binary_to_text(binary) ==
    LET bits == List(binary)
    IN  List([k \in 1..(Len(bits) \div 8) |-> ByteAt(bits, 8 * (k - 1))])

(***************************************************************************)
(* Results of calls.  A Python call either returns a value or raises; an   *)
(* outcome is a record with ok = TRUE and the value, or ok = FALSE and the *)
(* error that reaches the caller: type is the exception class, cause the   *)
(* raise statement it comes from.                                          *)
(***************************************************************************)
NoImage == [mode |-> "none", width |-> 0, height |-> 0, pixels |-> <<>>,
            coeffs |-> <<>>, margin |-> <<>>, facets |-> {}]

NoError == [type |-> "none", cause |-> "none"]

Raise(type, cause) == [type |-> type, cause |-> cause]

(***************************************************************************)
(* Text-encryption collaborator: TextEncryption.encrypt / decrypt.         *)
(* Fernet with a PBKDF2 key is an authenticated cipher: a token decrypts   *)
(* only under the password (and the salt stored in the token) it was made  *)
(* with, and the token is URL-safe base64 text.  The model keeps exactly   *)
(* that: a token is the salt character, a character that stands for the    *)
(* derived key, and three base64 digits for every character of the text.   *)
(***************************************************************************)
\* os.urandom(16), drawn by encrypt on every call
Salts == {65, 66}

\* the i-th character (0..63) of the URL-safe base64 alphabet
B64Char(i) ==
    CASE i < 26 -> 65 + i
      [] i >= 26 /\ i < 52 -> 97 + (i - 26)
      [] i >= 52 /\ i < 62 -> 48 + (i - 52)
      [] i = 62 -> 45
      [] OTHER -> 95

B64Alphabet == {B64Char(i) : i \in 0..63}

B64Value(c) == CHOOSE i \in 0..63 : B64Char(i) = c

\* mutant of _derive_key: the key does not depend on the password
_derive_key_salt_only(password, salt) == 120 + (salt - 65)

\* _derive_key(password, salt), as the character that stands for the key
_derive_key(password, salt) ==
    CASE password = "p1" -> 120 + (salt - 65)
      [] password = "p2" -> 110 + (salt - 65)
      [] OTHER -> 100 + (salt - 65)

EncodeChar(c) ==
    <<B64Char((c \div 4096) % 64), B64Char((c \div 64) % 64), B64Char(c % 64)>>

\* TextEncryption.encrypt(text, password) with the salt it drew
encrypt(text, password, salt) ==
    <<salt, _derive_key(password, salt)>>
        \o Flatten([i \in 1..Len(text) |-> EncodeChar(text[i])])

WellFormedToken(token) ==
    /\ Len(token) >= 2
    /\ (Len(token) - 2) % 3 = 0
    /\ token[1] \in Salts
    /\ \A i \in 1..Len(token) : token[i] \in B64Alphabet

\* TextEncryption.decrypt(encrypted_text, password): the text, or the
\* Exception it raises for a malformed token or a wrong password
decrypt(token, password) ==
    IF WellFormedToken(token) /\ token[2] = _derive_key(password, token[1])
    THEN [ok |-> TRUE,
          text |-> [k \in 1..((Len(token) - 2) \div 3) |->
                       4096 * B64Value(token[3 * k])
                       + 64 * B64Value(token[3 * k + 1])
                       + B64Value(token[3 * k + 2])],
          error |-> NoError]
    ELSE [ok |-> FALSE, text |-> <<>>,
          error |-> Raise("Exception", "decrypt")]

(***************************************************************************)
(* Image collaborator (PIL).                                               *)
(***************************************************************************)
\* number of complete 8x8 blocks of an array of the given size
BlockCount(width, height) == (height \div 8) * (width \div 8)

\* Image.new(mode, (width, height), color): a uniform image, as the tests
\* build their carrier.  Every AC coefficient of a uniform block is 0.
\* The pixel list is carried for images with no complete 8x8 block; for
\* larger ones the model carries the block coefficients only.
NewImage(mode, width, height, color) ==
    LET small == BlockCount(width, height) = 0
    IN  [mode |-> mode, width |-> width, height |-> height,
         pixels |-> IF small THEN [i \in 1..(width * height) |-> color]
                             ELSE <<>>,
         coeffs |-> [k \in 1..BlockCount(width, height) |-> 0],
         margin |-> <<>>,
         facets |-> IF small THEN {"pixels", "coeffs"} ELSE {"coeffs"}]

\* Image.open(io.BytesIO(image_bytes)) of an uploaded picture that is not
\* uniform: its blocks have the (2,3) coefficients given.  Only the block
\* coefficients of such a picture are carried.
OpenImage(mode, width, height, coeffs) ==
    [mode |-> mode, width |-> width, height |-> height,
     pixels |-> <<>>, coeffs |-> coeffs, margin |-> <<>>,
     facets |-> {"coeffs"}]

\* Image.new(mode, (width, height), color) with the pixel list carried
\* whatever the size, and the block coefficients left out
NewRaster(mode, width, height, color) ==
    [mode |-> mode, width |-> width, height |-> height,
     pixels |-> List([i \in 1..(width * height) |-> color]),
     coeffs |-> <<>>, margin |-> <<>>, facets |-> {"pixels"}]

\* the number of samples outside the complete 8x8 blocks
MarginCount(width, height) ==
    width * height - 64 * BlockCount(width, height)

\* Image.open of an uploaded grayscale picture, with the coefficients of
\* its blocks and the samples outside its complete blocks
OpenGray(width, height, coeffs, margin) ==
    [mode |-> "L", width |-> width, height |-> height,
     pixels |-> <<>>, coeffs |-> coeffs, margin |-> margin,
     facets |-> {"coeffs", "margin"}]

\* image.convert('RGB') of one pixel: alpha is dropped, gray is replicated
PixelToRGB(mode, p) ==
    CASE mode = "RGB" -> p
      [] mode = "RGBA" -> <<p[1], p[2], p[3]>>
      [] OTHER -> <<p[1], p[1], p[1]>>

\* if image.mode != 'RGB': image = image.convert('RGB')
ConvertRGB(image) ==
    IF image.mode = "RGB" THEN image
    ELSE [image EXCEPT !.mode = "RGB",
                       !.pixels =
                           List([i \in 1..Len(image.pixels) |->
                                   PixelToRGB(image.mode, image.pixels[i])])]

\* mutant of SetLsb: sample | bit, the low bit is never cleared
SetLsb_or(sample, bit) == IF sample % 2 = 1 THEN sample ELSE sample + bit

\* (sample & 0xFE) | bit
SetLsb(sample, bit) == 2 * (sample \div 2) + bit

\* sample & 1
Lsb(sample) == sample % 2

(***************************************************************************)
(* ImageSteganography.hide_text_lsb                                        *)
(***************************************************************************)
\* lines 69-104: the pixel loop.  binary_index before pixel i (1-based) is
\* 3 * (i - 1), because every earlier pixel consumed three bits (the loop
\* breaks at the first pixel that does not); channel c (0, 1, 2) of pixel i
\* is rewritten iff 3 * (i - 1) + c < len(binary_secret).  Pixels after the
\* break are appended unchanged.
EmbedLsb(pixels, binary_secret) ==
    LET data == List(pixels)
        bits == List(binary_secret)
    IN  List([i \in 1..Len(data) |->
                [c \in 1..3 |->
                    LET binary_index == 3 * (i - 1) + (c - 1)
                    IN  IF binary_index < Len(bits)
                        THEN SetLsb(data[i][c], bits[binary_index + 1])
                        ELSE data[i][c]]])

\* lines 41-46: the text after the optional encryption
LsbSecret(secret_text, encrypt_text, password, salt) ==
    IF encrypt_text /\ Truthy(password)
    THEN EncryptedTag \o encrypt(secret_text, password, salt)
    ELSE secret_text

\* mutant of LsbTooLong: counts four channels per pixel
LsbTooLong_four_channels(binary_secret, width, height) ==
    Len(binary_secret) > width * height * 4

\* lines 65-66: the capacity test of hide_text_lsb
LsbTooLong(binary_secret, width, height) ==
    Len(binary_secret) > width * height * 3

\* hide_text_lsb(image_bytes, secret_text, encrypt_text, password); salt is
\* what os.urandom returns if encrypt is called.  steps lists the stages the
\* call went through, in order.
hide_text_lsb(image_bytes, secret_text, encrypt_text, password, salt) ==
    LET encrypted == encrypt_text /\ Truthy(password)
        payload == LsbSecret(secret_text, encrypt_text, password, salt)
                       \o delimiter
        binary_secret == _text_to_binary(payload)
        image == ConvertRGB(image_bytes)
        max_bits == image.width * image.height * 3
        before == (IF encrypted THEN <<"ENCRYPT">> ELSE <<>>)
                      \o <<"SERIALIZE", "CAPACITY_CHECK">>
    IN  IF LsbTooLong(binary_secret, image.width, image.height)
        THEN [ok |-> FALSE, image |-> NoImage,
              error |-> Raise("Exception", "capacity"),
              payload |-> payload, binary_secret |-> binary_secret,
              max_bits |-> max_bits, steps |-> before]
        ELSE [ok |-> TRUE,
              image |-> [mode |-> "RGB", width |-> image.width,
                         height |-> image.height,
                         pixels |-> EmbedLsb(image.pixels, binary_secret),
                         coeffs |-> image.coeffs,
                         margin |-> <<>>,
                         facets |-> image.facets
                                      \ (IF BlockCount(image.width, image.height) = 0
                                         THEN {} ELSE {"coeffs"})],
              error |-> NoError,
              payload |-> payload, binary_secret |-> binary_secret,
              max_bits |-> max_bits, steps |-> before \o <<"EMBED">>]

(***************************************************************************)
(* ImageSteganography.extract_text_lsb                                     *)
(***************************************************************************)
\* mutant of ScanLsb: the blue channel is not read
ScanLsb_skips_blue(pixels) ==
    LET data == List(pixels)
    IN  List([k \in 1..(2 * Len(data)) |->
                Lsb(data[((k - 1) \div 2) + 1][((k - 1) % 2) + 1])])

\* lines 124-132: the LSB of R, G, B of every pixel, in raster order
ScanLsb(pixels) ==
    LET data == List(pixels)
    IN  List([k \in 1..(3 * Len(data)) |->
                Lsb(data[((k - 1) \div 3) + 1][((k - 1) % 3) + 1])])

\* mutant of Untag: decrypts only when a password came, and otherwise hands
\* the text back as it is (the condition of hide_text_lsb, mirrored)
Untag_silent(extracted_text, is_encrypted, password) ==
    IF StartsWith(extracted_text, EncryptedTag) /\ is_encrypted
           /\ Truthy(password)
    THEN decrypt(SubSeq(extracted_text, 11, Len(extracted_text)), password)
    ELSE [ok |-> TRUE, text |-> extracted_text, error |-> NoError]

\* mutant of Untag: goes by the caller's flag instead of the tag, and
\* decrypts whatever was recovered when is_encrypted came with a password
Untag_trusts_flag(extracted_text, is_encrypted, password) ==
    IF is_encrypted /\ Truthy(password)
    THEN decrypt(IF StartsWith(extracted_text, EncryptedTag)
                 THEN SubSeq(extracted_text, 11, Len(extracted_text))
                 ELSE extracted_text,
                 password)
    ELSE IF StartsWith(extracted_text, EncryptedTag)
         THEN [ok |-> FALSE, text |-> <<>>,
               error |-> Raise("Exception", "no_password")]
         ELSE [ok |-> TRUE, text |-> extracted_text, error |-> NoError]

\* lines 143-151, shared by extract_text_lsb and /stego/extract (dct):
\* the tag check, the credential check and the decryption
Untag(extracted_text, is_encrypted, password) ==
    IF StartsWith(extracted_text, EncryptedTag)
    THEN IF ~is_encrypted \/ ~Truthy(password)
         THEN [ok |-> FALSE, text |-> <<>>,
               error |-> Raise("Exception", "no_password")]
         ELSE decrypt(SubSeq(extracted_text, 11, Len(extracted_text)),
                      password)
    ELSE [ok |-> TRUE, text |-> extracted_text, error |-> NoError]

extract_text_lsb(image_bytes, is_encrypted, password) ==
    LET image == ConvertRGB(image_bytes)
        binary_secret == ScanLsb(image.pixels)
        extracted_text == _binary_to_text(binary_secret)
    IN  IF Contains(extracted_text, delimiter)
        THEN Untag(SplitFirst(extracted_text, delimiter), is_encrypted,
                   password)
        ELSE [ok |-> FALSE, text |-> <<>>,
              error |-> Raise("Exception", "no_delimiter")]

(***************************************************************************)
(* ImageSteganography.hide_text_dct / extract_text_dct, on the (2,3)       *)
(* coefficient of every complete block.  Coefficients and strengths are    *)
(* integers here; the division and the rounding are numpy's.               *)
(***************************************************************************)
\* np.round(n / d) for d > 0: round half to even
NpRound(n, d) ==
    LET q == n \div d
        r == n - q * d
    IN  CASE 2 * r < d -> q
          [] 2 * r > d -> q + 1
          [] OTHER -> IF q % 2 = 0 THEN q ELSE q + 1

\* mutant of EmbedCoeff: an odd quotient is made even towards zero where
\* that keeps it non-negative (q - 1 for q >= 1, q + 1 for q < 0)
EmbedCoeff_towards_zero(original_coeff, bit, strength) ==
    LET quantization_step == strength * 2
        rounded == NpRound(original_coeff, quantization_step)
        quantized ==
            IF bit = 1
            THEN IF rounded % 2 = 0 THEN rounded + 1 ELSE rounded
            ELSE IF rounded % 2 = 1
                 THEN rounded + (IF rounded >= 1 THEN -1 ELSE 1)
                 ELSE rounded
    IN  quantized * quantization_step

\* mutant of EmbedCoeff: the parity test of the 0 branch uses a remainder
\* that takes the sign of the dividend, so an odd negative is not seen as odd
EmbedCoeff_signed_remainder(original_coeff, bit, strength) ==
    LET quantization_step == strength * 2
        rounded == NpRound(original_coeff, quantization_step)
        quantized ==
            IF bit = 1
            THEN IF rounded % 2 = 0 THEN rounded + 1 ELSE rounded
            ELSE IF rounded >= 0 /\ rounded % 2 = 1
                 THEN rounded + 1
                 ELSE rounded
    IN  quantized * quantization_step

\* lines 204-218: the coefficient written for one payload bit
\* (numpy's % takes the sign of the divisor: an odd negative has % 2 == 1)
EmbedCoeff(original_coeff, bit, strength) ==
    LET quantization_step == strength * 2
        rounded == NpRound(original_coeff, quantization_step)
        quantized ==
            IF bit = 1
            THEN IF rounded % 2 = 0 THEN rounded + 1 ELSE rounded
            ELSE IF rounded % 2 = 1
                 THEN rounded + (IF rounded >= 0 THEN 1 ELSE -1)
                 ELSE rounded
    IN  quantized * quantization_step

\* lines 278-286: the bit read from one coefficient
ExtractBit(coeff_value, strength) ==
    IF NpRound(coeff_value, strength * 2) % 2 = 1 THEN 1 ELSE 0

\* mutant of DctTooLong: takes the capacity in characters for bits
DctTooLong_characters(binary_secret, width, height) ==
    Len(binary_secret) \div 8 > (height \div 8) * (width \div 8)

\* lines 182-183: the capacity test of hide_text_dct
DctTooLong(binary_secret, width, height) ==
    Len(binary_secret) > (height \div 8) * (width \div 8)

\* mutant of EmbedDct: the loops do not stop when the bits run out, and
\* the blocks that follow are quantised as for a 0 bit
EmbedDct_no_break(coeffs, binary_secret, strength, loss) ==
    [k \in 1..Len(coeffs) |->
        IF k <= Len(binary_secret)
        THEN EmbedCoeff(coeffs[k], binary_secret[k], strength) - loss
        ELSE EmbedCoeff(coeffs[k], 0, strength) - loss]

\* lines 186-232: one bit per complete block, in raster order, until the
\* bits run out.  loss is what idctn, np.clip and astype(np.uint8) take from
\* a rewritten coefficient before it is read again: the samples of a
\* rewritten block are truncated to integers.
EmbedDct(coeffs, binary_secret, strength, loss) ==
    [k \in 1..Len(coeffs) |->
        IF k <= Len(binary_secret)
        THEN EmbedCoeff(coeffs[k], binary_secret[k], strength) - loss
        ELSE coeffs[k]]

hide_text_dct(image_bytes, secret_text, strength, loss) ==
    LET payload == secret_text \o delimiter
        binary_secret == _text_to_binary(payload)
        width == image_bytes.width
        height == image_bytes.height
        max_capacity == (height \div 8) * (width \div 8)
        before == <<"SERIALIZE", "CAPACITY_CHECK">>
    IN  IF DctTooLong(binary_secret, width, height)
        THEN [ok |-> FALSE, image |-> NoImage,
              error |-> Raise("Exception", "capacity"),
              payload |-> payload, binary_secret |-> binary_secret,
              max_bits |-> max_capacity, steps |-> before]
        ELSE [ok |-> TRUE,
              image |-> [mode |-> "L", width |-> width, height |-> height,
                         pixels |-> <<>>,
                         coeffs |-> EmbedDct(image_bytes.coeffs, binary_secret,
                                             strength, loss),
                         margin |-> image_bytes.margin,
                         facets |-> {"coeffs"}
                                      \cup (image_bytes.facets
                                              \cap {"margin"})],
              error |-> NoError,
              payload |-> payload, binary_secret |-> binary_secret,
              max_bits |-> max_capacity, steps |-> before \o <<"EMBED">>]

\* lines 263-286: one bit per complete block
ScanDct(coeffs, strength) ==
    [k \in 1..Len(coeffs) |-> ExtractBit(coeffs[k], strength)]

\* line 297: the characters kept when no delimiter is found
Printable(c) == (c >= 32 /\ c <= 126) \/ c >= 19968

extract_text_dct(image_bytes, strength) ==
    LET binary_secret == ScanDct(image_bytes.coeffs, strength)
        extracted_text == _binary_to_text(binary_secret)
        clean_text == SelectSeq(extracted_text, Printable)
    IN  IF Contains(extracted_text, delimiter)
        THEN [ok |-> TRUE, text |-> SplitFirst(extracted_text, delimiter),
              error |-> NoError]
        ELSE IF Len(clean_text) > 0
             THEN [ok |-> TRUE, text |-> clean_text, error |-> NoError]
             ELSE [ok |-> FALSE, text |-> <<>>,
                   error |-> Raise("Exception", "no_delimiter")]

(***************************************************************************)
(* ImageSteganography.check_capacity                                       *)
(***************************************************************************)
NoReport == [image_size |-> <<0, 0>>, method |-> "none", max_bits |-> 0,
             max_characters |-> 0, max_text_length |-> 0]

\* mutant of CapacityBits: the RGB and RGBA branches are swapped
CapacityBits_swapped_modes(image, method) ==
    IF Lower(method) = "lsb"
    THEN CASE image.mode = "RGB" -> image.width * image.height * 4
           [] image.mode = "RGBA" -> image.width * image.height * 3
           [] OTHER -> image.width * image.height
    ELSE (image.height \div 8) * (image.width \div 8)

\* lines 315-327: max_bits, for a supported method
CapacityBits(image, method) ==
    IF Lower(method) = "lsb"
    THEN CASE image.mode = "RGB" -> image.width * image.height * 3
           [] image.mode = "RGBA" -> image.width * image.height * 4
           [] OTHER -> image.width * image.height
    ELSE (image.height \div 8) * (image.width \div 8)

\* mutant of check_capacity: the 'dct' branch is a plain else, so every
\* selector that is not 'lsb' is measured as 'dct'
check_capacity_else_dct(image_bytes, method) ==
    LET max_bits == CapacityBits(image_bytes, method)
        max_chars == max_bits \div 8
    IN  [ok |-> TRUE,
         report |-> [image_size |-> <<image_bytes.width,
                                      image_bytes.height>>,
                     method |-> method,
                     max_bits |-> max_bits,
                     max_characters |-> max_chars,
                     max_text_length |-> max_chars - Len(delimiter)],
         error |-> NoError, opened |-> TRUE]

\* line 312 opens the picture before line 315 looks at the method
check_capacity(image_bytes, method) ==
    IF Lower(method) \notin {"lsb", "dct"}
    THEN [ok |-> FALSE, report |-> NoReport,
          error |-> Raise("Exception", "unsupported_method"),
          opened |-> TRUE]
    ELSE LET max_bits == CapacityBits(image_bytes, method)
             max_chars == max_bits \div 8
         IN  [ok |-> TRUE,
              report |-> [image_size |-> <<image_bytes.width,
                                           image_bytes.height>>,
                          method |-> method,
                          max_bits |-> max_bits,
                          max_characters |-> max_chars,
                          max_text_length |-> max_chars - Len(delimiter)],
              error |-> NoError, opened |-> TRUE]

(***************************************************************************)
(* ImageSteganography.detect_hidden_text                                   *)
(***************************************************************************)
NoDetection ==
    [has_hidden_text |-> FALSE, method |-> "none", text_length |-> 0,
     preview |-> <<>>]

\* "..."
Ellipsis == <<46, 46, 46>>

\* lines 352 and 365: text[:50] + "..." if len(text) > 50 else text
Preview(text) ==
    IF Len(text) > 50 THEN SubSeq(text, 1, 50) \o Ellipsis ELSE text

\* lines 346 and 359: the extraction detect_hidden_text runs, with the
\* defaults of the extractor (is_encrypted=False, password=None, strength=10)
DetectExtract(image_bytes, method) ==
    IF Lower(method) = "lsb"
    THEN extract_text_lsb(image_bytes, FALSE, None)
    ELSE extract_text_dct(image_bytes, DefaultStrength)

\* mutant of detect_hidden_text: the inner try/except is missing, so a
\* failed extraction reaches the caller through the outer handler
detect_hidden_text_propagating(image_bytes, method) ==
    IF Lower(method) \notin {"lsb", "dct"}
    THEN [ok |-> FALSE, detection |-> NoDetection,
          error |-> Raise("Exception", "unsupported_method"),
          opened |-> FALSE]
    ELSE LET r == DetectExtract(image_bytes, method)
         IN  IF r.ok
             THEN [ok |-> TRUE,
                   detection |-> [has_hidden_text |-> TRUE,
                                  method |-> Lower(method),
                                  text_length |-> Len(r.text),
                                  preview |-> Preview(r.text)],
                   error |-> NoError, opened |-> TRUE]
             ELSE [ok |-> FALSE, detection |-> NoDetection,
                   error |-> r.error, opened |-> TRUE]

detect_hidden_text(image_bytes, method) ==
    IF Lower(method) \notin {"lsb", "dct"}
    THEN [ok |-> FALSE, detection |-> NoDetection,
          error |-> Raise("Exception", "unsupported_method"),
          opened |-> FALSE]
    ELSE LET r == DetectExtract(image_bytes, method)
         IN  IF r.ok
             THEN [ok |-> TRUE,
                   detection |-> [has_hidden_text |-> TRUE,
                                  method |-> Lower(method),
                                  text_length |-> Len(r.text),
                                  preview |-> Preview(r.text)],
                   error |-> NoError, opened |-> TRUE]
             ELSE [ok |-> TRUE,
                   detection |-> [has_hidden_text |-> FALSE,
                                  method |-> Lower(method),
                                  text_length |-> 0, preview |-> <<>>],
                   error |-> NoError, opened |-> TRUE]

(***************************************************************************)
(* The endpoints of src/main.py.  Every endpoint turns an exception into   *)
(* HTTPException(status_code=400) and answers 200 otherwise.               *)
(***************************************************************************)
\* /stego/hide, lines 585-590: the text handed to hide_text_dct
DctSecret(secret_text, encrypt_text, password, salt) ==
    IF encrypt_text /\ Truthy(password)
    THEN EncryptedTag \o encrypt(secret_text, password, salt)
    ELSE secret_text

\* /stego/hide: hide_text_in_image
hide_text_in_image(image_bytes, secret_text, method, encrypt_text, password, strength, salt, loss) ==
    LET result ==
            CASE Lower(method) = "lsb" ->
                     hide_text_lsb(image_bytes, secret_text, encrypt_text,
                                   password, salt)
              [] Lower(method) = "dct" ->
                     LET r == hide_text_dct(
                                  image_bytes,
                                  DctSecret(secret_text, encrypt_text,
                                            password, salt),
                                  strength, loss)
                     IN  IF encrypt_text /\ Truthy(password)
                         THEN [r EXCEPT !.steps = <<"ENCRYPT">> \o @]
                         ELSE r
              [] OTHER ->
                     [ok |-> FALSE, image |-> NoImage,
                      error |-> Raise("ValueError", "unsupported_method"),
                      payload |-> <<>>, binary_secret |-> <<>>,
                      max_bits |-> 0, steps |-> <<>>]
    IN  [called |-> TRUE, method |-> method, secret_text |-> secret_text,
         encrypt_text |-> encrypt_text, password |-> password,
         strength |-> strength,
         status |-> IF result.ok THEN 200 ELSE 400,
         ok |-> result.ok, image |-> result.image, error |-> result.error,
         payload |-> result.payload, binary_secret |-> result.binary_secret,
         max_bits |-> result.max_bits, steps |-> result.steps]

NoHide ==
    [called |-> FALSE, method |-> "none", secret_text |-> <<>>,
     encrypt_text |-> FALSE, password |-> None, strength |-> 0,
     status |-> 0, ok |-> FALSE, image |-> NoImage, error |-> NoError,
     payload |-> <<>>, binary_secret |-> <<>>, max_bits |-> 0,
     steps |-> <<>>]

NoQuery ==
    [kind |-> "none", target |-> "none", method |-> "none",
     is_encrypted |-> FALSE, password |-> None, strength |-> 0,
     status |-> 0, ok |-> FALSE, text |-> <<>>, error |-> NoError,
     report |-> NoReport, detection |-> NoDetection, opened |-> FALSE]

\* mutant of extract_text_from_image: the dct branch hands back what
\* extract_text_dct recovered, without the tag check of lines 625-632
extract_text_from_image_dct_raw(image_bytes, method, is_encrypted, password, strength) ==
    CASE Lower(method) = "lsb" ->
             extract_text_lsb(image_bytes, is_encrypted, password)
      [] Lower(method) = "dct" ->
             extract_text_dct(image_bytes, strength)
      [] OTHER ->
             [ok |-> FALSE, text |-> <<>>,
              error |-> Raise("ValueError", "unsupported_method")]

\* /stego/extract: extract_text_from_image
extract_text_from_image(image_bytes, method, is_encrypted, password, strength) ==
    CASE Lower(method) = "lsb" ->
             extract_text_lsb(image_bytes, is_encrypted, password)
      [] Lower(method) = "dct" ->
             LET r == extract_text_dct(image_bytes, strength)
             IN  IF r.ok THEN Untag(r.text, is_encrypted, password) ELSE r
      [] OTHER ->
             [ok |-> FALSE, text |-> <<>>,
              error |-> Raise("ValueError", "unsupported_method")]

(***************************************************************************)
(* Inputs of the model.                                                    *)
(***************************************************************************)
\* '#', 'A', e-acute, and the CJK character U+4E2D
Alphabet == {35, 65, 233, 20013}

\* the text "###END", the text "ENCRYPTED:", a text of 60 letters and a
\* text of 100 letters
NamedTexts ==
    {<<35, 35, 35, 69, 78, 68>>, EncryptedTag, [i \in 1..60 |-> 65],
     [i \in 1..100 |-> 65]}

Texts == UNION {[1..n -> Alphabet] : n \in 0..MaxTextLen} \cup NamedTexts

Methods == {"lsb", "DCT", "bmp"}

Passwords == {None, "p1", "p2"}

Strengths == {DefaultStrength}

\* what truncating the samples of a rewritten block takes from its
\* coefficient (below half of the smallest quantisation step)
Losses == {0, 3}

\* the (2,3) coefficients of the 16 blocks of a textured picture nobody
\* embedded anything in
TextureCoeffs ==
    <<0, 20, 0, 0, 0, 0, 0, 20, 0, 20, 0, 0, 0, 0, 0, 20>>

\* the carriers a client uploads: uniform ones, built as tests/test_api.py
\* builds its own, and a textured one
Covers ==
    {NewImage("RGB", 8, 3, <<254, 1, 128>>),
     NewImage("RGB", 9, 3, <<0, 0, 255>>),
     NewImage("RGB", 12, 6, <<255, 128, 37>>),
     NewImage("RGBA", 10, 3, <<0, 0, 255, 200>>),
     NewImage("L", 12, 6, <<100>>),
     NewImage("RGB", 75, 70, <<0, 0, 255>>),
     NewImage("RGB", 200, 200, <<0, 0, 255>>),
     OpenImage("RGB", 64, 16, TextureCoeffs)}

Supported(method) == Lower(method) \in {"lsb", "dct"}

\* the facet of the image that a method reads
Facet(method) ==
    CASE Lower(method) = "lsb" -> {"pixels"}
      [] Lower(method) = "dct" -> {"coeffs"}
      [] OTHER -> {}

(***************************************************************************)
(* The shared instance and the calls in flight on it.  main.py makes one   *)
(* ImageSteganography at import time; every request handler calls its      *)
(* methods, and requests may run at the same time.  A frame is one call:   *)
(* its arguments, its position in the method body, and its local           *)
(* variables; overlapped records that another call was between its first   *)
(* and last step while this one took a step.                               *)
(***************************************************************************)
\* __init__: self.delimiter = "###END###"
ImageSteganography == [delimiter |-> delimiter]

CallIds == {1, 2}

NoFrame ==
    [op |-> "none", pc |-> "idle", image_bytes |-> NoImage,
     secret_text |-> <<>>, encrypt_text |-> FALSE, password |-> None,
     salt |-> 65, is_encrypted |-> FALSE, method |-> "none",
     text |-> <<>>, binary_secret |-> <<>>, image |-> NoImage,
     trace |-> <<>>, ok |-> FALSE, out_image |-> NoImage, out_text |-> <<>>,
     report |-> NoReport, detection |-> NoDetection, error |-> NoError,
     overlapped |-> FALSE]

NoCalls == [id \in CallIds |-> NoFrame]

\* mutant of hide_text_lsb_step: the serialised payload is kept on the
\* instance (self.binary_secret) instead of in a local variable
hide_text_lsb_step_buffer_on_self(frame, self) ==
    CASE frame.pc = "encrypt" ->
           \* lines 41-46
           IF frame.encrypt_text /\ Truthy(frame.password)
           THEN [frame |-> [frame EXCEPT
                               !.text = EncryptedTag
                                          \o encrypt(frame.secret_text,
                                                     frame.password,
                                                     frame.salt),
                               !.trace = Append(@, "ENCRYPT"),
                               !.pc = "serialize"],
                 self |-> self]
           ELSE [frame |-> [frame EXCEPT !.text = frame.secret_text,
                                         !.pc = "serialize"],
                 self |-> self]
      [] frame.pc = "serialize" ->
           \* lines 48-52
           [frame |-> [frame EXCEPT
                          !.text = frame.text \o self.delimiter,
                          !.binary_secret =
                              _text_to_binary(frame.text \o self.delimiter),
                          !.trace = Append(@, "SERIALIZE"),
                          !.pc = "open"],
            self |-> [delimiter |-> self.delimiter,
                      binary_secret |->
                          _text_to_binary(frame.text \o self.delimiter)]]
      [] frame.pc = "open" ->
           \* lines 55-62
           [frame |-> [frame EXCEPT !.image = ConvertRGB(frame.image_bytes),
                                    !.pc = "check"],
            self |-> self]
      [] frame.pc = "check" ->
           \* lines 64-67
           IF LsbTooLong(self.binary_secret, frame.image.width,
                         frame.image.height)
           THEN [frame |-> [frame EXCEPT
                               !.trace = Append(@, "CAPACITY_CHECK"),
                               !.error = Raise("Exception", "capacity"),
                               !.pc = "done"],
                 self |-> self]
           ELSE [frame |-> [frame EXCEPT
                               !.trace = Append(@, "CAPACITY_CHECK"),
                               !.pc = "embed"],
                 self |-> self]
      [] OTHER ->
           \* lines 69-106
           [frame |-> [frame EXCEPT
                          !.out_image =
                              [mode |-> "RGB", width |-> frame.image.width,
                               height |-> frame.image.height,
                               pixels |-> EmbedLsb(frame.image.pixels,
                                                   self.binary_secret),
                               coeffs |-> frame.image.coeffs,
                               margin |-> <<>>,
                               facets |-> frame.image.facets],
                          !.ok = TRUE,
                          !.trace = Append(@, "EMBED"),
                          !.pc = "done"],
            self |-> self]

\* mutant of hide_text_lsb_step: the capacity check measures the text as
\* it was passed in, before the encryption
hide_text_lsb_step_checks_plaintext(frame, self) ==
    CASE frame.pc = "encrypt" ->
           \* lines 41-46
           IF frame.encrypt_text /\ Truthy(frame.password)
           THEN [frame |-> [frame EXCEPT
                               !.text = EncryptedTag
                                          \o encrypt(frame.secret_text,
                                                     frame.password,
                                                     frame.salt),
                               !.trace = Append(@, "ENCRYPT"),
                               !.pc = "serialize"],
                 self |-> self]
           ELSE [frame |-> [frame EXCEPT !.text = frame.secret_text,
                                         !.pc = "serialize"],
                 self |-> self]
      [] frame.pc = "serialize" ->
           \* lines 48-52
           [frame |-> [frame EXCEPT
                          !.text = frame.text \o self.delimiter,
                          !.binary_secret =
                              _text_to_binary(frame.text \o self.delimiter),
                          !.trace = Append(@, "SERIALIZE"),
                          !.pc = "open"],
            self |-> self]
      [] frame.pc = "open" ->
           \* lines 55-62
           [frame |-> [frame EXCEPT !.image = ConvertRGB(frame.image_bytes),
                                    !.pc = "check"],
            self |-> self]
      [] frame.pc = "check" ->
           \* lines 64-67
           IF LsbTooLong(_text_to_binary(frame.secret_text
                                             \o self.delimiter),
                         frame.image.width, frame.image.height)
           THEN [frame |-> [frame EXCEPT
                               !.trace = Append(@, "CAPACITY_CHECK"),
                               !.error = Raise("Exception", "capacity"),
                               !.pc = "done"],
                 self |-> self]
           ELSE [frame |-> [frame EXCEPT
                               !.trace = Append(@, "CAPACITY_CHECK"),
                               !.pc = "embed"],
                 self |-> self]
      [] OTHER ->
           \* lines 69-106
           [frame |-> [frame EXCEPT
                          !.out_image =
                              [mode |-> "RGB", width |-> frame.image.width,
                               height |-> frame.image.height,
                               pixels |-> EmbedLsb(frame.image.pixels,
                                                   frame.binary_secret),
                               coeffs |-> frame.image.coeffs,
                               margin |-> <<>>,
                               facets |-> frame.image.facets],
                          !.ok = TRUE,
                          !.trace = Append(@, "EMBED"),
                          !.pc = "done"],
            self |-> self]

\* one step of hide_text_lsb in the frame of a call; self is the instance
\* the call runs on.  The step returns the frame and the instance after it.
hide_text_lsb_step(frame, self) ==
    CASE frame.pc = "encrypt" ->
           \* lines 41-46
           IF frame.encrypt_text /\ Truthy(frame.password)
           THEN [frame |-> [frame EXCEPT
                               !.text = EncryptedTag
                                          \o encrypt(frame.secret_text,
                                                     frame.password,
                                                     frame.salt),
                               !.trace = Append(@, "ENCRYPT"),
                               !.pc = "serialize"],
                 self |-> self]
           ELSE [frame |-> [frame EXCEPT !.text = frame.secret_text,
                                         !.pc = "serialize"],
                 self |-> self]
      [] frame.pc = "serialize" ->
           \* lines 48-52
           [frame |-> [frame EXCEPT
                          !.text = frame.text \o self.delimiter,
                          !.binary_secret =
                              _text_to_binary(frame.text \o self.delimiter),
                          !.trace = Append(@, "SERIALIZE"),
                          !.pc = "open"],
            self |-> self]
      [] frame.pc = "open" ->
           \* lines 55-62
           [frame |-> [frame EXCEPT !.image = ConvertRGB(frame.image_bytes),
                                    !.pc = "check"],
            self |-> self]
      [] frame.pc = "check" ->
           \* lines 64-67
           IF LsbTooLong(frame.binary_secret, frame.image.width,
                         frame.image.height)
           THEN [frame |-> [frame EXCEPT
                               !.trace = Append(@, "CAPACITY_CHECK"),
                               !.error = Raise("Exception", "capacity"),
                               !.pc = "done"],
                 self |-> self]
           ELSE [frame |-> [frame EXCEPT
                               !.trace = Append(@, "CAPACITY_CHECK"),
                               !.pc = "embed"],
                 self |-> self]
      [] OTHER ->
           \* lines 69-106
           [frame |-> [frame EXCEPT
                          !.out_image =
                              [mode |-> "RGB", width |-> frame.image.width,
                               height |-> frame.image.height,
                               pixels |-> EmbedLsb(frame.image.pixels,
                                                   frame.binary_secret),
                               coeffs |-> frame.image.coeffs,
                               margin |-> <<>>,
                               facets |-> frame.image.facets],
                          !.ok = TRUE,
                          !.trace = Append(@, "EMBED"),
                          !.pc = "done"],
            self |-> self]

\* one step of extract_text_lsb
extract_text_lsb_step(frame, self) ==
    CASE frame.pc = "open" ->
           \* lines 114-119
           [frame |-> [frame EXCEPT !.image = ConvertRGB(frame.image_bytes),
                                    !.pc = "scan"],
            self |-> self]
      [] frame.pc = "scan" ->
           \* lines 122-135
           [frame |-> [frame EXCEPT
                          !.binary_secret = ScanLsb(frame.image.pixels),
                          !.text = _binary_to_text(ScanLsb(frame.image.pixels)),
                          !.pc = "find"],
            self |-> self]
      [] frame.pc = "find" ->
           \* lines 137-141
           IF Contains(frame.text, self.delimiter)
           THEN [frame |-> [frame EXCEPT
                               !.text = SplitFirst(frame.text, self.delimiter),
                               !.pc = "untag"],
                 self |-> self]
           ELSE [frame |-> [frame EXCEPT
                               !.error = Raise("Exception", "no_delimiter"),
                               !.pc = "done"],
                 self |-> self]
      [] OTHER ->
           \* lines 143-153
           LET r == Untag(frame.text, frame.is_encrypted, frame.password)
           IN  [frame |-> [frame EXCEPT !.ok = r.ok, !.out_text = r.text,
                                        !.error = r.error, !.pc = "done"],
                self |-> self]

\* one step of check_capacity
check_capacity_step(frame, self) ==
    CASE frame.pc = "open" ->
           \* lines 312-313
           [frame |-> [frame EXCEPT !.image = frame.image_bytes,
                                    !.pc = "measure"],
            self |-> self]
      [] OTHER ->
           \* lines 315-338
           LET r == check_capacity(frame.image, frame.method)
           IN  [frame |->
                    [frame EXCEPT
                        !.ok = r.ok,
                        !.report =
                            IF r.ok
                            THEN [r.report EXCEPT
                                     !.max_text_length =
                                         r.report.max_characters
                                             - Len(self.delimiter)]
                            ELSE r.report,
                        !.error = r.error,
                        !.pc = "done"],
                self |-> self]

\* one step of detect_hidden_text(image_bytes, 'lsb'): the steps of the
\* extract_text_lsb call it makes, then lines 347-358
detect_hidden_text_step(frame, self) ==
    IF frame.pc = "wrap"
    THEN [frame |->
              [frame EXCEPT
                  !.detection =
                      IF frame.ok
                      THEN [has_hidden_text |-> TRUE, method |-> "lsb",
                            text_length |-> Len(frame.out_text),
                            preview |-> Preview(frame.out_text)]
                      ELSE [has_hidden_text |-> FALSE, method |-> "lsb",
                            text_length |-> 0, preview |-> <<>>],
                  !.ok = TRUE, !.out_text = <<>>, !.error = NoError,
                  !.pc = "done"],
          self |-> self]
    ELSE LET r == extract_text_lsb_step(frame, self)
         IN  IF r.frame.pc = "done"
             THEN [r EXCEPT !.frame.pc = "wrap"]
             ELSE r

\* the step a call takes next
Step(frame, self) ==
    CASE frame.op = "hide" -> hide_text_lsb_step(frame, self)
      [] frame.op = "extract" -> extract_text_lsb_step(frame, self)
      [] frame.op = "capacity" -> check_capacity_step(frame, self)
      [] OTHER -> detect_hidden_text_step(frame, self)

\* what the call of a frame returns when nothing else runs: the method as
\* a whole
Alone(frame) ==
    CASE frame.op = "hide" ->
           LET r == hide_text_lsb(frame.image_bytes, frame.secret_text,
                                  frame.encrypt_text, frame.password,
                                  frame.salt)
           IN  [ok |-> r.ok, out_image |-> r.image, out_text |-> <<>>,
                report |-> NoReport, detection |-> NoDetection,
                error |-> r.error]
      [] frame.op = "extract" ->
           LET r == extract_text_lsb(frame.image_bytes, frame.is_encrypted,
                                     frame.password)
           IN  [ok |-> r.ok, out_image |-> NoImage, out_text |-> r.text,
                report |-> NoReport, detection |-> NoDetection,
                error |-> r.error]
      [] frame.op = "capacity" ->
           LET r == check_capacity(frame.image_bytes, frame.method)
           IN  [ok |-> r.ok, out_image |-> NoImage, out_text |-> <<>>,
                report |-> r.report, detection |-> NoDetection,
                error |-> r.error]
      [] OTHER ->
           LET r == detect_hidden_text(frame.image_bytes, frame.method)
           IN  [ok |-> r.ok, out_image |-> NoImage, out_text |-> <<>>,
                report |-> NoReport, detection |-> r.detection,
                error |-> r.error]

\* what the call of a frame returned
Returned(frame) ==
    [ok |-> frame.ok, out_image |-> frame.out_image,
     out_text |-> frame.out_text, report |-> frame.report,
     detection |-> frame.detection, error |-> frame.error]

(***************************************************************************)
(* State of one client session: the carrier the client holds, its          *)
(* /stego/hide call (with the image it returned) and the query             *)
(* (/stego/extract or /stego/capacity) it makes next.  The server keeps no *)
(* state between calls, so sessions do not influence each other.           *)
(***************************************************************************)
VARIABLES cover, hide, query, image_stego, calls

vars == <<cover, hide, query, image_stego, calls>>

Init ==
    /\ cover \in Covers
    /\ hide = NoHide
    /\ query = NoQuery
    /\ image_stego = ImageSteganography
    /\ calls = NoCalls

StegoHide ==
    \E secret_text \in Texts, method \in Methods, encrypt_text \in BOOLEAN,
       password \in Passwords, strength \in Strengths :
      \E salt \in (IF encrypt_text /\ Truthy(password) THEN Salts ELSE {65}),
         loss \in (IF Lower(method) = "dct" THEN Losses ELSE {0}) :
        /\ ~hide.called
        /\ query = NoQuery
        /\ Facet(method) \subseteq cover.facets
        /\ hide' = hide_text_in_image(cover, secret_text, method,
                                      encrypt_text, password, strength,
                                      salt, loss)
        /\ query' = NoQuery
        /\ UNCHANGED <<cover, image_stego, calls>>

StegoExtract ==
    \E target \in {"cover", "stego"}, method \in Methods,
       is_encrypted \in BOOLEAN, password \in Passwords,
       strength \in Strengths :
      LET image_bytes == IF target = "stego" THEN hide.image ELSE cover
      IN  /\ query = NoQuery
          /\ target = "stego" => hide.ok
          /\ Facet(method) \subseteq image_bytes.facets
          /\ LET r == extract_text_from_image(image_bytes, method,
                                              is_encrypted, password,
                                              strength)
             IN  query' = [kind |-> "extract", target |-> target,
                           method |-> method, is_encrypted |-> is_encrypted,
                           password |-> password, strength |-> strength,
                           status |-> IF r.ok THEN 200 ELSE 400,
                           ok |-> r.ok, text |-> r.text, error |-> r.error,
                           report |-> NoReport, detection |-> NoDetection,
                           opened |-> Supported(method)]
          /\ UNCHANGED <<cover, hide, image_stego, calls>>

StegoCapacity ==
    \E method \in Methods :
      LET r == check_capacity(cover, method)
      IN  /\ query = NoQuery
          /\ query' = [kind |-> "capacity", target |-> "cover",
                       method |-> method, is_encrypted |-> FALSE,
                       password |-> None, strength |-> 0,
                       status |-> IF r.ok THEN 200 ELSE 400,
                       ok |-> r.ok, text |-> <<>>, error |-> r.error,
                       report |-> r.report, detection |-> NoDetection,
                       opened |-> r.opened]
          /\ UNCHANGED <<cover, hide, image_stego, calls>>

StegoDetect ==
    \E target \in {"cover", "stego"}, method \in Methods :
      LET image_bytes == IF target = "stego" THEN hide.image ELSE cover
      IN  /\ query = NoQuery
          /\ target = "stego" => hide.ok
          /\ Facet(method) \subseteq image_bytes.facets
          /\ LET r == detect_hidden_text(image_bytes, method)
             IN  query' = [kind |-> "detect", target |-> target,
                           method |-> method, is_encrypted |-> FALSE,
                           password |-> None, strength |-> 0,
                           status |-> IF r.ok THEN 200 ELSE 400,
                           ok |-> r.ok, text |-> <<>>, error |-> r.error,
                           report |-> NoReport, detection |-> r.detection,
                           opened |-> r.opened]
          /\ UNCHANGED <<cover, hide, image_stego, calls>>

Next == StegoHide \/ StegoExtract \/ StegoCapacity \/ StegoDetect

Spec == Init /\ [][Next]_vars

(***************************************************************************)
(* The transform method on textured pictures: sessions that hide a text    *)
(* with 'dct' in a picture whose blocks have positive, zero and negative   *)
(* (2,3) coefficients, at several strengths, and read the returned image   *)
(* back with the coefficients as they were written.                        *)
(***************************************************************************)
\* (2,3) coefficients of the blocks of a textured picture; over the steps
\* 2, 6 and 20 they round to odd and even, positive and negative quotients
\* and hit the ties of the rounding
CoeffValues == <<-50, -30, -21, -10, -1, 0, 1, 9, 10, 11, 20, 30, 47>>

\* pictures of 88 x 64 pixels (88 blocks) that repeat CoeffValues from
\* different offsets
CoeffCovers ==
    {OpenImage("L", 88, 64,
               [k \in 1..88 |-> CoeffValues[((k + o) % Len(CoeffValues)) + 1]])
        : o \in 1..Len(CoeffValues)}
    \cup
    {OpenGray(90, 66,
              [k \in 1..88 |-> CoeffValues[(k % Len(CoeffValues)) + 1]],
              [i \in 1..MarginCount(90, 66) |-> (7 * i) % 256])}

\* the strength field of the forms (a float, default 10.0)
CoeffStrengths == {1, 3, DefaultStrength}

InitCoeff ==
    /\ cover \in CoeffCovers
    /\ hide = NoHide
    /\ query = NoQuery
    /\ image_stego = ImageSteganography
    /\ calls = NoCalls

DctHide ==
    \E secret_text \in Texts, strength \in CoeffStrengths :
        /\ ~hide.called
        /\ query = NoQuery
        /\ hide' = hide_text_in_image(cover, secret_text, "dct", FALSE, None,
                                      strength, 65, 0)
        /\ UNCHANGED <<cover, query, image_stego, calls>>

DctExtract ==
    \E strength \in CoeffStrengths :
        /\ hide.ok
        /\ query = NoQuery
        /\ LET r == extract_text_from_image(hide.image, "dct", FALSE, None,
                                            strength)
           IN  query' = [kind |-> "extract", target |-> "stego",
                         method |-> "dct", is_encrypted |-> FALSE,
                         password |-> None, strength |-> strength,
                         status |-> IF r.ok THEN 200 ELSE 400,
                         ok |-> r.ok, text |-> r.text, error |-> r.error,
                         report |-> NoReport, detection |-> NoDetection,
                         opened |-> TRUE]
        /\ UNCHANGED <<cover, hide, image_stego, calls>>

NextCoeff == DctHide \/ DctExtract

SpecCoeff == InitCoeff /\ [][NextCoeff]_vars

(***************************************************************************)
(* The scenario of tests/test_api.py on its own carrier, pixel by pixel:   *)
(* a session that hides a short text with 'lsb' in the blue 200 x 200      *)
(* picture, reads it back and asks for the capacity.                       *)
(***************************************************************************)
\* "hi there"
HiThere == <<104, 105, 32, 116, 104, 101, 114, 101>>

ScenarioTexts == {HiThere, <<>>}

InitScenario ==
    /\ cover = NewRaster("RGB", 200, 200, <<0, 0, 255>>)
    /\ hide = NoHide
    /\ query = NoQuery
    /\ image_stego = ImageSteganography
    /\ calls = NoCalls

ScenarioHide ==
    \E secret_text \in ScenarioTexts, encrypt_text \in BOOLEAN,
       password \in Passwords :
      \E salt \in (IF encrypt_text /\ Truthy(password) THEN Salts ELSE {65}) :
        /\ ~hide.called
        /\ query = NoQuery
        /\ hide' = hide_text_in_image(cover, secret_text, "lsb",
                                      encrypt_text, password,
                                      DefaultStrength, salt, 0)
        /\ UNCHANGED <<cover, query, image_stego, calls>>

ScenarioExtract ==
    \E is_encrypted \in BOOLEAN, password \in Passwords :
        /\ hide.ok
        /\ query = NoQuery
        /\ LET r == extract_text_from_image(hide.image, "lsb", is_encrypted,
                                            password, DefaultStrength)
           IN  query' = [kind |-> "extract", target |-> "stego",
                         method |-> "lsb", is_encrypted |-> is_encrypted,
                         password |-> password, strength |-> DefaultStrength,
                         status |-> IF r.ok THEN 200 ELSE 400,
                         ok |-> r.ok, text |-> r.text, error |-> r.error,
                         report |-> NoReport, detection |-> NoDetection,
                         opened |-> TRUE]
        /\ UNCHANGED <<cover, hide, image_stego, calls>>

NextScenario == ScenarioHide \/ ScenarioExtract \/ StegoCapacity

SpecScenario == InitScenario /\ [][NextScenario]_vars

(***************************************************************************)
(* Concurrent requests: two calls on the shared instance, on the same      *)
(* uploaded picture, each advancing one step at a time in any order.       *)
(***************************************************************************)
CallTexts == {<<65>>, <<35, 35, 35, 69, 78, 68>>}

CallPasswords == {None, "p1"}

\* a fresh picture, and two pictures that earlier hide calls returned
CallCovers ==
    LET fresh == NewImage("RGB", 12, 6, <<255, 128, 37>>)
    IN  {fresh,
         hide_text_lsb(fresh, <<65>>, FALSE, None, 65).image,
         hide_text_lsb(fresh, <<65>>, TRUE, "p1", 66).image}

InitCalls ==
    /\ cover \in CallCovers
    /\ hide = NoHide
    /\ query = NoQuery
    /\ image_stego = ImageSteganography
    /\ calls = NoCalls

CallHide(id) ==
    \E secret_text \in CallTexts, encrypt_text \in BOOLEAN,
       password \in CallPasswords :
      \E salt \in (IF encrypt_text /\ Truthy(password) THEN Salts ELSE {65}) :
        /\ calls[id].pc = "idle"
        /\ calls' = [calls EXCEPT ![id] =
                        [NoFrame EXCEPT !.op = "hide", !.pc = "encrypt",
                                        !.image_bytes = cover,
                                        !.secret_text = secret_text,
                                        !.encrypt_text = encrypt_text,
                                        !.password = password,
                                        !.salt = salt, !.method = "lsb"]]
        /\ UNCHANGED <<cover, hide, query, image_stego>>

CallExtract(id) ==
    \E is_encrypted \in BOOLEAN, password \in CallPasswords :
        /\ calls[id].pc = "idle"
        /\ calls' = [calls EXCEPT ![id] =
                        [NoFrame EXCEPT !.op = "extract", !.pc = "open",
                                        !.image_bytes = cover,
                                        !.is_encrypted = is_encrypted,
                                        !.password = password,
                                        !.method = "lsb"]]
        /\ UNCHANGED <<cover, hide, query, image_stego>>

CallCapacity(id) ==
    \E method \in Methods :
        /\ calls[id].pc = "idle"
        /\ calls' = [calls EXCEPT ![id] =
                        [NoFrame EXCEPT !.op = "capacity", !.pc = "open",
                                        !.image_bytes = cover,
                                        !.method = method]]
        /\ UNCHANGED <<cover, hide, query, image_stego>>

CallDetect(id) ==
    /\ calls[id].pc = "idle"
    /\ calls' = [calls EXCEPT ![id] =
                    [NoFrame EXCEPT !.op = "detect", !.pc = "open",
                                    !.image_bytes = cover,
                                    !.method = "lsb"]]
    /\ UNCHANGED <<cover, hide, query, image_stego>>

CallStep(id) ==
    /\ calls[id].pc \notin {"idle", "done"}
    /\ LET r == Step(calls[id], image_stego)
           busy == \E other \in CallIds \ {id} :
                       calls[other].pc \notin {"idle", "done"}
       IN  /\ calls' = [calls EXCEPT ![id] =
                           [r.frame EXCEPT !.overlapped = @ \/ busy]]
           /\ image_stego' = r.self
    /\ UNCHANGED <<cover, hide, query>>

NextCalls ==
    \E id \in CallIds :
        \/ CallHide(id)
        \/ CallExtract(id)
        \/ CallCapacity(id)
        \/ CallDetect(id)
        \/ CallStep(id)

SpecCalls == InitCalls /\ [][NextCalls]_vars

(***************************************************************************)
(* Re-embedding: a session that hides a text with 'lsb', hides a second    *)
(* text in the picture that came back, and reads the result.  calls[1] and *)
(* calls[2] are the two hide_text_lsb calls, one after the other; query is *)
(* the /stego/extract call on the second picture.                          *)
(***************************************************************************)
\* "", "A", "B", "AB", "###END" and a text of 18 letters
RehideTexts ==
    {<<>>, <<65>>, <<66>>, <<65, 66>>, <<35, 35, 35, 69, 78, 68>>,
     [i \in 1..18 |-> 65]}

RehideCovers ==
    {NewImage("RGB", 12, 6, <<255, 128, 37>>),
     NewImage("RGBA", 10, 3, <<255, 128, 37, 255>>),
     NewImage("L", 12, 6, <<200>>)}

\* a hide_text_lsb call without encryption that ran to its end
RehideFrame(image_bytes, secret_text) ==
    LET r == hide_text_lsb(image_bytes, secret_text, FALSE, None, 65)
    IN  [NoFrame EXCEPT !.op = "hide", !.pc = "done",
                        !.image_bytes = image_bytes,
                        !.secret_text = secret_text,
                        !.method = "lsb",
                        !.text = r.payload,
                        !.binary_secret = r.binary_secret,
                        !.trace = r.steps,
                        !.ok = r.ok, !.out_image = r.image,
                        !.error = r.error]

InitRehide ==
    /\ cover \in RehideCovers
    /\ hide = NoHide
    /\ query = NoQuery
    /\ image_stego = ImageSteganography
    /\ calls = NoCalls

RehideFirst ==
    \E secret_text \in RehideTexts :
        /\ calls[1].pc = "idle"
        /\ calls' = [calls EXCEPT ![1] = RehideFrame(cover, secret_text)]
        /\ UNCHANGED <<cover, hide, query, image_stego>>

RehideSecond ==
    \E secret_text \in RehideTexts :
        /\ calls[1].ok
        /\ calls[2].pc = "idle"
        /\ calls' = [calls EXCEPT ![2] =
                        RehideFrame(calls[1].out_image, secret_text)]
        /\ UNCHANGED <<cover, hide, query, image_stego>>

RehideExtract ==
    \E is_encrypted \in BOOLEAN, password \in Passwords :
        /\ calls[2].ok
        /\ query = NoQuery
        /\ LET r == extract_text_from_image(calls[2].out_image, "lsb",
                                            is_encrypted, password,
                                            DefaultStrength)
           IN  query' = [kind |-> "extract", target |-> "stego",
                         method |-> "lsb", is_encrypted |-> is_encrypted,
                         password |-> password, strength |-> DefaultStrength,
                         status |-> IF r.ok THEN 200 ELSE 400,
                         ok |-> r.ok, text |-> r.text, error |-> r.error,
                         report |-> NoReport, detection |-> NoDetection,
                         opened |-> TRUE]
        /\ UNCHANGED <<cover, hide, image_stego, calls>>

NextRehide == RehideFirst \/ RehideSecond \/ RehideExtract

SpecRehide == InitRehide /\ [][NextRehide]_vars

(***************************************************************************)
(* Vocabulary of the properties.                                           *)
(***************************************************************************)
\* every character of the text has a code point in 0..255
SingleByte(text) == \A i \in 1..Len(text) : text[i] <= 255

\* the state right after a /stego/hide call with a supported method
\* (the call is the same in the states of the queries that follow it)
Hidden == hide.called /\ query.kind = "none" /\ Supported(hide.method)

\* the session hid a text and then read the returned image back with the
\* same method
ReadBack ==
    /\ hide.called /\ hide.ok
    /\ query.kind = "extract" /\ query.target = "stego"
    /\ Lower(query.method) = Lower(hide.method)

(***************************************************************************)
(* C1.  LSB round trip: for every RGB image of width w and height h and    *)
(* every text t of characters 0..255 with 8 * (len(t) + 9) <= 3 * w * h,   *)
(* hiding t with lsb (no encryption, no password) succeeds and extracting  *)
(* with lsb (no encryption, no password) returns exactly t.                *)
(***************************************************************************)
C1_LsbRoundTrip ==
    LET fits == 8 * (Len(hide.secret_text) + 9) <= 3 * cover.width * cover.height
        plain == /\ hide.called /\ Lower(hide.method) = "lsb"
                 /\ cover.mode = "RGB"
                 /\ ~hide.encrypt_text /\ hide.password = None
                 /\ SingleByte(hide.secret_text) /\ fits
    IN  /\ plain => hide.ok
        /\ (plain /\ ReadBack /\ ~query.is_encrypted /\ query.password = None)
              => (query.ok /\ query.text = hide.secret_text)

(***************************************************************************)
(* C2.  Round trip of non-Latin text through the API: a secret text with   *)
(* a character above code point 255, hidden with /stego/hide and read back *)
(* with /stego/extract by the same method, is returned unchanged.          *)
(***************************************************************************)
C2_NonLatinRoundTrip ==
    (/\ ReadBack
     /\ ~hide.encrypt_text /\ ~query.is_encrypted
     /\ \E i \in 1..Len(hide.secret_text) : hide.secret_text[i] > 255)
        => (query.status = 200 /\ query.text = hide.secret_text)

RECURSIVE BitLength(_)
BitLength(n) == IF n < 2 THEN 1 ELSE 1 + BitLength(n \div 2)

\* width of the group of one character: 8 bits up to 255, all digits above
GroupWidth(c) == IF c <= 255 THEN 8 ELSE BitLength(c)

\* total width of the groups of characters lo..hi
RECURSIVE GroupWidths(_, _, _)
GroupWidths(text, lo, hi) ==
    CASE lo > hi -> 0
      [] lo = hi -> GroupWidth(text[lo])
      [] OTHER -> LET mid == (lo + hi) \div 2
                  IN  GroupWidths(text, lo, mid) + GroupWidths(text, mid + 1, hi)

\* number of bits before the group of character i
GroupOffset(text, i) == GroupWidths(text, 1, i - 1)

\* value of the bits o+1 .. o+n, most significant first
RECURSIVE BitsValue(_, _, _)
BitsValue(binary, o, n) ==
    IF n = 0 THEN 0 ELSE 2 * BitsValue(binary, o, n - 1) + binary[o + n]

C4_FailFastCapacity ==
    LET limit == IF Lower(hide.method) = "lsb"
                 THEN 3 * cover.width * cover.height
                 ELSE (cover.height \div 8) * (cover.width \div 8)
    IN  (/\ Hidden
         /\ Len(_text_to_binary(hide.secret_text \o delimiter)) > limit)
            => /\ ~hide.ok
               /\ hide.status = 400
               /\ hide.error.cause = "capacity"
               /\ hide.image = NoImage
               /\ hide.steps[Len(hide.steps)] = "CAPACITY_CHECK"
               /\ \A k \in 1..Len(hide.steps) : hide.steps[k] # "EMBED"

C4_Witness ==
    /\ Hidden
    /\ Lower(hide.method) = "lsb"
    /\ hide.secret_text = <<35, 35, 35, 69, 78, 68>>
    /\ cover.width * cover.height * 3 = 81
    /\ hide.error.cause = "capacity"

(***************************************************************************)
(* C5.  Capacity boundary against the report: for every image (RGB, RGBA   *)
(* or grayscale) and each method, with r = check_capacity(image, method),  *)
(* hiding a text of exactly r.max_text_length single-byte characters       *)
(* succeeds and hiding a text one character longer raises the capacity     *)
(* error.                                                                  *)
(***************************************************************************)
C5_ReportedLimitIsEnforced ==
    LET r == check_capacity(cover, hide.method).report
    IN  (Hidden /\ ~hide.encrypt_text /\ SingleByte(hide.secret_text)) =>
            /\ Len(hide.secret_text) = r.max_text_length => hide.ok
            /\ Len(hide.secret_text) = r.max_text_length + 1
                  => (~hide.ok /\ hide.error.cause = "capacity")

(***************************************************************************)
(* C6.  Spatial capacity formula: check_capacity(image, 'lsb') reports     *)
(* max_bits = width * height * channel_count, with channel_count 3 for     *)
(* every colour image (also one with an alpha channel) and 1 for           *)
(* grayscale, and max_characters = floor(max_bits / 8).                    *)
(***************************************************************************)
C6_SpatialCapacityFormula ==
    LET channel_count == IF cover.mode \in {"RGB", "RGBA"} THEN 3 ELSE 1
    IN  (query.kind = "capacity" /\ Lower(query.method) = "lsb") =>
            /\ query.ok
            /\ query.report.max_bits
                  = cover.width * cover.height * channel_count
            /\ query.report.max_characters = query.report.max_bits \div 8

(***************************************************************************)
(* C7.  Transform capacity formula: check_capacity(image, 'dct') reports   *)
(* max_bits = floor(height/8) * floor(width/8) and hide_text_dct enforces  *)
(* the same bound; a 200x200 image has 625 bits and 78 characters, and     *)
(* hiding any 100-character text in it with dct raises the capacity error. *)
(***************************************************************************)
C7_TransformCapacityFormula ==
    LET blocks == (cover.height \div 8) * (cover.width \div 8)
        square200 == cover.width = 200 /\ cover.height = 200
    IN  /\ (query.kind = "capacity" /\ Lower(query.method) = "dct") =>
              /\ query.ok
              /\ query.report.max_bits = blocks
              /\ square200 => /\ query.report.max_bits = 625
                              /\ query.report.max_characters = 78
        /\ (Hidden /\ Lower(hide.method) = "dct") =>
              /\ hide.ok <=> Len(hide.binary_secret) <= blocks
              /\ ~hide.ok => hide.error.cause = "capacity"
              /\ (square200 /\ Len(hide.secret_text) = 100) => ~hide.ok

C7_Witness ==
    /\ cover.width = 200 /\ cover.height = 200
    /\ hide.called /\ Lower(hide.method) = "dct"
    /\ Len(hide.secret_text) = 100
    /\ hide.error.cause = "capacity"
    /\ query.kind = "capacity" /\ Lower(query.method) = "dct"
    /\ query.report.max_bits = 625

(***************************************************************************)
(* C8.  Requested encryption is always applied: whenever a hide call is    *)
(* made with encrypt_text = true, with or without a password, the payload  *)
(* written into the image is the tag "ENCRYPTED:" followed by the          *)
(* ciphertext, and the plaintext is never embedded in the clear.           *)
(***************************************************************************)
C8_RequestedEncryptionApplied ==
    (Hidden /\ hide.encrypt_text /\ hide.ok) =>
        /\ StartsWith(hide.payload, EncryptedTag)
        /\ hide.payload # hide.secret_text \o delimiter

\* the image that the query of this state read
QueryImage == IF query.target = "stego" THEN hide.image ELSE cover

\* the text that the extraction of this state recovered from the image,
\* before the tag check: <<>> with found = FALSE when it recovered none
Recovered ==
    IF Lower(query.method) = "lsb"
    THEN LET decoded == _binary_to_text(ScanLsb(ConvertRGB(QueryImage).pixels))
         IN  IF Contains(decoded, delimiter)
             THEN [found |-> TRUE, text |-> SplitFirst(decoded, delimiter)]
             ELSE [found |-> FALSE, text |-> <<>>]
    ELSE LET r == extract_text_dct(QueryImage, query.strength)
         IN  [found |-> r.ok, text |-> r.text]

(***************************************************************************)
(* C9.  Missing credential: when the text recovered by extraction          *)
(* (extract_text_lsb, or /stego/extract with dct) starts with "ENCRYPTED:" *)
(* and no password is supplied, the call fails with an error; it returns   *)
(* neither the tagged ciphertext nor any other text.                       *)
(***************************************************************************)
C9_MissingCredentialFails ==
    (/\ query.kind = "extract" /\ Supported(query.method)
     /\ ~Truthy(query.password)
     /\ Recovered.found /\ StartsWith(Recovered.text, EncryptedTag))
        => /\ ~query.ok
           /\ query.status = 400
           /\ query.text = <<>>

C9_Witness ==
    /\ ReadBack /\ Lower(query.method) = "dct"
    /\ hide.encrypt_text /\ hide.password = "p1" /\ hide.secret_text = <<65>>
    /\ query.is_encrypted /\ query.password = None
    /\ StartsWith(Recovered.text, EncryptedTag)
    /\ query.status = 400

(***************************************************************************)
(* C10.  Encryption chaining: for every text t and non-empty passwords     *)
(* p1 # p2, with the payload fitting the image, hiding t with              *)
(* encrypt_text = true, password = p1 and extracting with                  *)
(* is_encrypted = true, password = p1 returns t, while extracting with     *)
(* password = p2 raises an error and returns no text.                      *)
(***************************************************************************)
C10_EncryptionChaining ==
    (/\ ReadBack /\ Lower(hide.method) = "lsb"
     /\ hide.encrypt_text /\ Truthy(hide.password)
     /\ query.is_encrypted /\ Truthy(query.password))
        => IF query.password = hide.password
           THEN query.ok /\ query.text = hide.secret_text
           ELSE ~query.ok /\ query.text = <<>> /\ query.status = 400

C10_Witness ==
    /\ ReadBack /\ Lower(hide.method) = "lsb"
    /\ hide.encrypt_text /\ hide.password = "p1"
    /\ hide.secret_text = <<20013>>
    /\ query.is_encrypted /\ query.password = "p1"
    /\ query.status = 200 /\ query.text = <<20013>>

\* C11 as stated: for both methods, an extraction whose decoded stream does
\* not contain the delimiter fails with an error and returns no text.
C11_StrictDelimiter ==
    (query.kind = "extract" /\ Supported(query.method)) =>
        LET stream ==
                IF Lower(query.method) = "lsb"
                THEN _binary_to_text(ScanLsb(ConvertRGB(QueryImage).pixels))
                ELSE _binary_to_text(ScanDct(QueryImage.coeffs,
                                             query.strength))
        IN  ~Contains(stream, delimiter) =>
                (~query.ok /\ query.status = 400 /\ query.text = <<>>)

\* C13: for a supported method (in any letter case) detect_hidden_text
\* never raises: it answers has_hidden_text = FALSE when the extraction it
\* runs fails, and has_hidden_text = TRUE with the length of the text and a
\* preview (the text, or its first 50 characters and "..." when longer)
\* when the extraction succeeds.
C13_DetectionNeverRaises ==
    (query.kind = "detect" /\ Supported(query.method)) =>
        LET r == IF Lower(query.method) = "lsb"
                 THEN extract_text_lsb(QueryImage, FALSE, None)
                 ELSE extract_text_dct(QueryImage, DefaultStrength)
            d == query.detection
        IN  /\ query.ok /\ query.status = 200 /\ query.error = NoError
            /\ d.has_hidden_text = r.ok
            /\ r.ok =>
                  /\ d.text_length = Len(r.text)
                  /\ Len(r.text) <= 50 => d.preview = r.text
                  /\ Len(r.text) > 50 =>
                        /\ Len(d.preview) = 53
                        /\ \A i \in 1..50 : d.preview[i] = r.text[i]
                        /\ \A i \in 51..53 : d.preview[i] = 46

\* a detection that found a text of 60 characters and previews 50 of them
C13_Witness ==
    /\ query.kind = "detect" /\ query.method = "DCT"
    /\ query.detection.has_hidden_text
    /\ query.detection.text_length = 60
    /\ Len(query.detection.preview) = 53

\* a detection whose extraction failed
C13_WitnessFailed ==
    /\ query.kind = "detect" /\ query.method = "lsb"
    /\ query.target = "stego" /\ hide.encrypt_text
    /\ ~query.detection.has_hidden_text /\ query.ok

\* the calls of this state that came with a selector that is neither 'lsb'
\* nor 'dct' failed and returned no image, text, report or detection
UnsupportedFails ==
    /\ (hide.called /\ ~Supported(hide.method)) =>
          /\ ~hide.ok /\ hide.status = 400
          /\ hide.error.cause = "unsupported_method"
          /\ hide.image = NoImage
    /\ (query.kind # "none" /\ ~Supported(query.method)) =>
          /\ ~query.ok /\ query.status = 400
          /\ query.error.cause = "unsupported_method"
          /\ query.text = <<>>
          /\ query.report = NoReport
          /\ query.detection = NoDetection

\* C14 as stated: a call with an unsupported selector fails, returns
\* nothing, and no image is read on its way.
C14_UnknownMethodReadsNothing ==
    /\ UnsupportedFails
    /\ (hide.called /\ ~Supported(hide.method)) => hide.steps = <<>>
    /\ (query.kind # "none" /\ ~Supported(query.method)) => ~query.opened

\* C14, amended: a call with an unsupported selector fails and returns
\* nothing; /stego/hide, /stego/extract and detect_hidden_text reject the
\* selector before the picture is opened, check_capacity opens the picture
\* first and rejects the selector afterwards.
C14_UnknownMethodFails ==
    /\ UnsupportedFails
    /\ (hide.called /\ ~Supported(hide.method)) => hide.steps = <<>>
    /\ (query.kind # "none" /\ ~Supported(query.method)) =>
          (query.opened <=> query.kind = "capacity")

\* a capacity query with the selector 'bmp' after a hide call with it
C14_Witness ==
    /\ hide.called /\ hide.method = "bmp" /\ ~hide.ok
    /\ query.kind = "capacity" /\ query.method = "bmp" /\ ~query.ok

\* C15 as stated: two failures of different causes (capacity exceeded,
\* delimiter not found, decryption failed) reach the caller as errors of
\* different kinds.
C15_DistinctErrorKinds ==
    LET Failures == {"capacity", "no_delimiter", "decrypt"}
    IN  (/\ hide.called /\ ~hide.ok /\ hide.error.cause \in Failures
         /\ query.kind = "extract" /\ ~query.ok
         /\ query.error.cause \in Failures
         /\ hide.error.cause # query.error.cause) =>
            \/ hide.error.type # query.error.type
            \/ hide.status # query.status

\* C18 as stated: for every text t of code points 0..255 that does not
\* contain the delimiter, decoding the serialised bits of t + delimiter and
\* cutting at the first occurrence of the delimiter yields exactly t.
C18_TruncationYieldsText ==
    (/\ Hidden
     /\ hide.payload = hide.secret_text \o delimiter
     /\ SingleByte(hide.secret_text)
     /\ ~Contains(hide.secret_text, delimiter)) =>
        LET decoded == _binary_to_text(hide.binary_secret)
        IN  /\ Contains(decoded, delimiter)
            /\ SplitFirst(decoded, delimiter) = hide.secret_text

\* C19: hide_text_lsb writes bit k of an n-bit payload into the low bit of
\* channel k mod 3 of pixel k div 3 (pixels in row-major order), keeps the
\* upper seven bits of every sample, leaves every sample of index n or more
\* as it was, and returns an image of the same width, height and pixel
\* count.
C19_LsbEmbeddingFrame ==
    (Hidden /\ Lower(hide.method) = "lsb" /\ hide.ok) =>
        LET input == ConvertRGB(cover).pixels
            output == hide.image.pixels
            n == Len(hide.binary_secret)
        IN  /\ hide.image.width = cover.width
            /\ hide.image.height = cover.height
            /\ Len(output) = cover.width * cover.height
            /\ \A k \in 0..(3 * cover.width * cover.height - 1) :
                  LET sample_in == input[(k \div 3) + 1][(k % 3) + 1]
                      sample_out == output[(k \div 3) + 1][(k % 3) + 1]
                  IN  /\ sample_out \div 2 = sample_in \div 2
                      /\ k < n => sample_out % 2 = hide.binary_secret[k + 1]
                      /\ k >= n => sample_out = sample_in

\* a payload that fills the image exactly: 72 bits in 8 x 3 pixels
C19_Witness ==
    /\ Hidden /\ Lower(hide.method) = "lsb" /\ hide.ok
    /\ Len(hide.binary_secret) = 3 * cover.width * cover.height

\* a payload whose length is no multiple of 3 and leaves samples untouched
C19_WitnessPartialPixel ==
    /\ Hidden /\ Lower(hide.method) = "lsb" /\ hide.ok
    /\ Len(hide.binary_secret) % 3 # 0
    /\ Len(hide.binary_secret) < 3 * cover.width * cover.height

\* C12: after hide_text_dct wrote quantized * 2s into the (2,3) coefficient
\* of a block for the bit b, the coefficient read back unchanged and divided
\* by 2s has an odd quotient iff b = 1, whether the quotient is positive,
\* zero or negative; so the bits read from the first len(bits) blocks are
\* the embedded bits.
C12_CoefficientRoundTrip ==
    (hide.called /\ hide.ok) =>
        LET step == 2 * hide.strength
            bits == hide.binary_secret
            written == hide.image.coeffs
        IN  /\ \A k \in 1..Len(bits) :
                  /\ written[k] % step = 0
                  /\ ((written[k] \div step) % 2 = 1) <=> (bits[k] = 1)
                  /\ NpRound(written[k], step) = written[k] \div step
            /\ SubSeq(ScanDct(written, hide.strength), 1, Len(bits)) = bits
            /\ \A k \in (Len(bits) + 1)..Len(written) :
                  written[k] = cover.coeffs[k]

\* a read-back of an image whose written quotients are positive, zero and
\* negative, for bits 0 and 1
C12_Witness ==
    /\ hide.ok /\ query.kind = "extract" /\ query.ok
    /\ query.strength = hide.strength
    /\ query.text = hide.secret_text /\ Len(query.text) = 1
    /\ \A b \in {0, 1} :
          /\ \E k \in 1..Len(hide.binary_secret) :
                hide.binary_secret[k] = b /\ hide.image.coeffs[k] < 0
          /\ \E k \in 1..Len(hide.binary_secret) :
                hide.binary_secret[k] = b /\ hide.image.coeffs[k] > 0
    /\ \E k \in 1..Len(hide.binary_secret) : hide.image.coeffs[k] = 0

\* C17 as stated: the 200 x 200 three-channel image has max_bits = 120000
\* and max_characters = 15000; "hi there" plus the delimiter is 18
\* characters and 144 bits, hiding it with lsb succeeds and the extraction
\* returns "hi there".
C17_ScenarioAsStated ==
    /\ (query.kind = "capacity" /\ query.method = "lsb") =>
          /\ query.report.max_bits = 120000
          /\ query.report.max_characters = 15000
    /\ (hide.called /\ hide.secret_text = HiThere /\ ~hide.encrypt_text) =>
          /\ Len(hide.payload) = 18
          /\ Len(hide.binary_secret) = 144
          /\ hide.ok
    /\ (hide.called /\ hide.secret_text = HiThere /\ ~hide.encrypt_text
           /\ query.kind = "extract") =>
          (query.ok /\ query.text = HiThere)

\* C17, amended: the 200 x 200 three-channel image has max_bits = 120000
\* and max_characters = 15000; "hi there" has 8 characters, with the
\* delimiter 17, which serialise to 136 bits; hiding it with lsb succeeds
\* and the extraction returns "hi there".
C17_Scenario ==
    /\ (query.kind = "capacity" /\ query.method = "lsb") =>
          /\ query.ok
          /\ query.report.max_bits = 120000
          /\ query.report.max_characters = 15000
    /\ (hide.called /\ hide.secret_text = HiThere /\ ~hide.encrypt_text) =>
          /\ Len(hide.secret_text) = 8
          /\ Len(hide.payload) = 17
          /\ Len(hide.binary_secret) = 136
          /\ hide.max_bits = 120000
          /\ hide.ok /\ hide.status = 200
    /\ (hide.called /\ hide.secret_text = HiThere /\ ~hide.encrypt_text
           /\ query.kind = "extract") =>
          (query.ok /\ query.status = 200 /\ query.text = HiThere)

\* "hi there" was hidden in the 200 x 200 image and read back from it
C17_Witness ==
    /\ cover.width = 200 /\ cover.height = 200 /\ cover.mode = "RGB"
    /\ Len(cover.pixels) = 40000
    /\ hide.ok /\ hide.secret_text = HiThere /\ ~hide.encrypt_text
    /\ query.kind = "extract" /\ query.text = HiThere

\* C16: in every interleaving of the steps of concurrent hide, extract,
\* check_capacity and detect calls on the shared instance, a call that has
\* returned returned what it returns when it runs alone; the delimiter of
\* the instance is what the constructor set, and the picture every call
\* was given is still the uploaded one.
C16_CallsDoNotInterfere ==
    /\ image_stego = ImageSteganography
    /\ \A id \in CallIds :
          /\ calls[id].pc # "idle" => calls[id].image_bytes = cover
          /\ calls[id].pc = "done" => Returned(calls[id]) = Alone(calls[id])

\* a hide call and an extract call that overlapped have both returned
C16_Witness ==
    /\ calls[1].op = "hide" /\ calls[1].pc = "done" /\ calls[1].ok
    /\ calls[1].overlapped /\ calls[2].overlapped
    /\ calls[2].op = "extract" /\ calls[2].pc = "done" /\ calls[2].ok
    /\ calls[2].out_text = <<65>> /\ calls[2].password = "p1"

\* C20: hide_text_lsb encrypts (when it does) before it appends the
\* delimiter and serialises, serialises before it checks the capacity, and
\* checks the capacity before it rewrites a pixel; the check measures the
\* tagged ciphertext plus delimiter, and a call that returns an image went
\* through every step in that order.
C20_OrchestrationOrder ==
    \A id \in CallIds :
        LET frame == calls[id]
            encrypted == frame.encrypt_text /\ Truthy(frame.password)
            order == (IF encrypted THEN <<"ENCRYPT">> ELSE <<>>)
                         \o <<"SERIALIZE", "CAPACITY_CHECK", "EMBED">>
            payload == LsbSecret(frame.secret_text, frame.encrypt_text,
                                 frame.password, frame.salt) \o delimiter
            passed == frame.pc = "embed" \/ frame.out_image # NoImage
        IN  frame.op = "hide" =>
              /\ Len(frame.trace) <= Len(order)
              /\ frame.trace = SubSeq(order, 1, Len(frame.trace))
              /\ frame.out_image # NoImage =>
                    (frame.trace = order /\ frame.pc = "done" /\ frame.ok)
              /\ (frame.pc = "done" /\ frame.ok) => frame.out_image # NoImage
              /\ (\E k \in 1..Len(frame.trace) : frame.trace[k] = "SERIALIZE")
                    => (/\ frame.text = payload
                        /\ frame.binary_secret = _text_to_binary(payload))
              /\ (encrypted /\ frame.pc = "serialize") =>
                    StartsWith(frame.text, EncryptedTag)
              /\ passed =>
                    Len(_text_to_binary(payload))
                        <= 3 * cover.width * cover.height

\* an encrypted hide call returned an image
C20_Witness ==
    \E id \in CallIds :
        /\ calls[id].op = "hide" /\ calls[id].pc = "done" /\ calls[id].ok
        /\ calls[id].trace = <<"ENCRYPT", "SERIALIZE", "CAPACITY_CHECK",
                                "EMBED">>

\* an encrypted hide call was refused for a text that fits as plaintext
C20_WitnessRefused ==
    \E id \in CallIds :
        /\ calls[id].op = "hide" /\ calls[id].pc = "done" /\ ~calls[id].ok
        /\ calls[id].trace = <<"ENCRYPT", "SERIALIZE", "CAPACITY_CHECK">>
        /\ Len(_text_to_binary(calls[id].secret_text \o delimiter))
              <= 3 * cover.width * cover.height

\* the quotient np.round(original_coeff / step) of block k of the cover,
\* and the quotient hide_text_dct left in the block
RoundedQuotient(k) == NpRound(cover.coeffs[k], 2 * hide.strength)

WrittenQuotient(k) == hide.image.coeffs[k] \div (2 * hide.strength)

\* what both readings of the rule agree on: bit 1 adds 1 to an even
\* quotient and keeps an odd one, bit 0 keeps an even one
EmbedRuleCommon(k) ==
    LET q == RoundedQuotient(k)
        bit == hide.binary_secret[k]
    IN  /\ (bit = 1 /\ q % 2 = 0) => WrittenQuotient(k) = q + 1
        /\ (bit = 1 /\ q % 2 = 1) => WrittenQuotient(k) = q
        /\ (bit = 0 /\ q % 2 = 0) => WrittenQuotient(k) = q

\* C21 as stated: for bit 0 an odd quotient q is decremented when q >= 1
\* and incremented when q is negative.
C21_BitZeroTowardsZero ==
    (hide.called /\ hide.ok) =>
        \A k \in 1..Len(hide.binary_secret) :
            /\ EmbedRuleCommon(k)
            /\ (hide.binary_secret[k] = 0 /\ RoundedQuotient(k) % 2 = 1) =>
                  WrittenQuotient(k) =
                      IF RoundedQuotient(k) >= 1
                      THEN RoundedQuotient(k) - 1
                      ELSE RoundedQuotient(k) + 1

\* C21, amended: for bit 0 an odd quotient q is incremented when q >= 0
\* and decremented when q is negative (it moves away from zero); bit 1
\* increments an even q and leaves an odd q unchanged.
C21_BitZeroAwayFromZero ==
    (hide.called /\ hide.ok) =>
        \A k \in 1..Len(hide.binary_secret) :
            /\ EmbedRuleCommon(k)
            /\ (hide.binary_secret[k] = 0 /\ RoundedQuotient(k) % 2 = 1) =>
                  WrittenQuotient(k) =
                      IF RoundedQuotient(k) >= 0
                      THEN RoundedQuotient(k) + 1
                      ELSE RoundedQuotient(k) - 1

\* a hide call that embedded 0 bits over odd quotients of both signs and 1
\* bits over even and odd quotients
C21_Witness ==
    /\ hide.called /\ hide.ok
    /\ \E k \in 1..Len(hide.binary_secret) :
          hide.binary_secret[k] = 0 /\ RoundedQuotient(k) % 2 = 1
              /\ RoundedQuotient(k) >= 1
    /\ \E k \in 1..Len(hide.binary_secret) :
          hide.binary_secret[k] = 0 /\ RoundedQuotient(k) % 2 = 1
              /\ RoundedQuotient(k) < 0
    /\ \E k \in 1..Len(hide.binary_secret) :
          hide.binary_secret[k] = 1 /\ RoundedQuotient(k) % 2 = 0
    /\ \E k \in 1..Len(hide.binary_secret) :
          hide.binary_secret[k] = 1 /\ RoundedQuotient(k) % 2 = 1

\* C22: hide_text_dct spends one payload bit on every complete 8x8 block
\* in raster order (block rows outer, block columns inner): bit k is
\* written to block k, every block past the last bit keeps its
\* coefficient, and the samples outside the complete blocks keep their
\* values.
C22_BlockEmbeddingFrame ==
    (hide.called /\ hide.ok) =>
        LET block_columns == cover.width \div 8
            block_rows == cover.height \div 8
            bits == hide.binary_secret
        IN  /\ hide.image.width = cover.width
            /\ hide.image.height = cover.height
            /\ Len(hide.image.coeffs) = block_rows * block_columns
            /\ \A r \in 0..(block_rows - 1), c \in 0..(block_columns - 1) :
                  LET k == r * block_columns + c + 1
                  IN  IF k <= Len(bits)
                      THEN hide.image.coeffs[k]
                               = EmbedCoeff(cover.coeffs[k], bits[k],
                                            hide.strength)
                      ELSE hide.image.coeffs[k] = cover.coeffs[k]
            /\ "margin" \in cover.facets =>
                  /\ "margin" \in hide.image.facets
                  /\ Len(hide.image.margin)
                        = MarginCount(cover.width, cover.height)
                  /\ hide.image.margin = cover.margin

\* a hide call on a picture with an incomplete trailing block row and
\* column, whose payload ends before the last block
C22_Witness ==
    /\ hide.called /\ hide.ok
    /\ cover.width % 8 # 0 /\ cover.height % 8 # 0
    /\ Len(cover.margin) > 0
    /\ Len(hide.binary_secret) < Len(cover.coeffs)
    /\ \E k \in (Len(hide.binary_secret) + 1)..Len(cover.coeffs) :
          cover.coeffs[k] % (2 * hide.strength) # 0

\* the bits that the extraction of this state scanned from its image
Scanned ==
    IF Lower(query.method) = "lsb"
    THEN ScanLsb(ConvertRGB(QueryImage).pixels)
    ELSE ScanDct(QueryImage.coeffs, query.strength)

\* C23: extract_text_lsb reads 3 * w * h bits, the low bits of R, G, B of
\* every pixel in row-major order, and extract_text_dct reads
\* floor(h / 8) * floor(w / 8) bits (none for an image narrower or lower
\* than 8), whether or not anything was embedded; the count is the
\* max_bits that the hide call of the same method enforces on the image.
C23_FullScanLength ==
    (query.kind = "extract" /\ Supported(query.method)) =>
        LET image == QueryImage
            lsb == Lower(query.method) = "lsb"
            scanned == Scanned
            samples == 3 * image.width * image.height
        IN  /\ lsb =>
                  /\ Len(scanned) = samples
                  /\ \A k \in 0..(samples - 1) :
                        scanned[k + 1]
                            = PixelToRGB(image.mode,
                                         image.pixels[(k \div 3) + 1])
                                                     [(k % 3) + 1] % 2
            /\ ~lsb =>
                  Len(scanned) = (image.height \div 8) * (image.width \div 8)
            /\ (hide.called /\ Lower(hide.method) = Lower(query.method)
                   /\ hide.steps # <<>>) =>
                  Len(scanned) = hide.max_bits

\* an lsb extraction from an image in which a payload shorter than the
\* image was hidden
C23_Witness ==
    /\ query.kind = "extract" /\ query.method = "lsb"
    /\ query.target = "stego" /\ hide.ok
    /\ Len(hide.binary_secret) < hide.max_bits
    /\ Len(Scanned) = hide.max_bits

\* a dct extraction from an image with no complete block
C23_WitnessNoBlock ==
    /\ query.kind = "extract" /\ query.method = "DCT"
    /\ QueryImage.height < 8 /\ QueryImage.width >= 8
    /\ Len(Scanned) = 0

\* every bit string of at most 7 bits
Tails == UNION {[1..n -> {0, 1}] : n \in 0..7}

\* C24: _binary_to_text yields one character per complete group of 8 bits
\* and drops a shorter trailing group, so it yields floor(len(bits) / 8)
\* characters; and it returns every text of code points 0..255 from the
\* bits _text_to_binary made of it, also when up to 7 more bits follow.
C24_DecodeDropsTail ==
    Hidden =>
        LET bits == hide.binary_secret
            text == _binary_to_text(bits)
        IN  /\ Len(text) = Len(bits) \div 8
            /\ \A k \in 1..Len(text) :
                  text[k] = BitsValue(bits, 8 * (k - 1), 8)
            /\ SingleByte(hide.payload) =>
                  /\ text = hide.payload
                  /\ \A n \in 1..7 :
                        _binary_to_text(bits \o [i \in 1..n |-> 1])
                            = hide.payload
            /\ (SingleByte(hide.payload) /\ Len(hide.payload) <= 10) =>
                  \A tail \in Tails :
                      _binary_to_text(bits \o tail) = hide.payload

\* a hide call whose serialised payload decodes with every tail
C24_Witness ==
    /\ Hidden /\ ~hide.encrypt_text
    /\ SingleByte(hide.payload) /\ Len(hide.secret_text) = 1
    /\ _binary_to_text(hide.binary_secret \o <<1, 0, 1, 1, 0, 1, 1>>)
          = hide.payload

\* a serialised payload whose length is no multiple of 8
C24_WitnessShortGroup ==
    /\ Hidden /\ Len(hide.binary_secret) % 8 = 7
    /\ Len(_binary_to_text(hide.binary_secret)) = 10

\* C25 as stated: a text of code points 0..255 without the delimiter that
\* was hidden with lsb and encrypt_text = FALSE comes back from an
\* extraction without a password, also when it begins with "ENCRYPTED:"
\* (the texts whose tail runs into the delimiter are left to C1).
C25_PlaintextComesBack ==
    (/\ hide.called /\ hide.ok /\ Lower(hide.method) = "lsb"
     /\ ~hide.encrypt_text
     /\ SingleByte(hide.secret_text)
     /\ ~Contains(hide.secret_text, delimiter)
     /\ SplitFirst(hide.payload, delimiter) = hide.secret_text
     /\ query.kind = "extract" /\ query.target = "stego"
     /\ Lower(query.method) = "lsb"
     /\ query.password = None) =>
        (query.ok /\ query.text = hide.secret_text)

\* C26 as stated: after hiding t1 and then t2 with lsb (code points 0..255,
\* no delimiter inside, both fitting) extraction returns t2, whatever the
\* two lengths, and hiding the same text twice gives the picture that
\* hiding it once gave.
C26_RehideOverwrites ==
    /\ (query.kind = "extract" /\ calls[2].ok
        /\ ~Contains(calls[2].secret_text, delimiter)) =>
           (query.ok /\ query.text = calls[2].secret_text)
    /\ (calls[2].ok /\ calls[2].secret_text = calls[1].secret_text) =>
           calls[2].out_image = calls[1].out_image

\* the part of C26 that the code keeps: the same, for second texts whose
\* payload has its first delimiter where the text ends
C26_RehideOverwritesApart ==
    /\ (query.kind = "extract" /\ calls[2].ok
        /\ SplitFirst(calls[2].text, delimiter) = calls[2].secret_text) =>
           (query.ok /\ query.text = calls[2].secret_text)
    /\ (calls[2].ok /\ calls[2].secret_text = calls[1].secret_text) =>
           calls[2].out_image = calls[1].out_image

\* a shorter text was hidden over a longer one and read back
C26_WitnessShorter ==
    /\ query.kind = "extract" /\ query.ok
    /\ calls[2].ok
    /\ Len(calls[2].secret_text) < Len(calls[1].secret_text)
    /\ query.text = calls[2].secret_text

\* C27 as stated: on every image that a successful lsb hide returned, with
\* or without payload encryption, detection with 'lsb' reports
\* has_hidden_text = TRUE (the plaintexts that begin with "ENCRYPTED:"
\* are left to C25, the texts with code points above 255 to C2).
C27_DetectionComplete ==
    (/\ hide.called /\ hide.ok /\ Lower(hide.method) = "lsb"
     /\ SingleByte(hide.secret_text)
     /\ ~StartsWith(hide.secret_text, EncryptedTag)
     /\ query.kind = "detect" /\ query.target = "stego"
     /\ Lower(query.method) = "lsb") =>
        (query.ok /\ query.detection.has_hidden_text)

C29_CapacityNeverNegative ==
    (query.kind = "capacity" /\ Supported(query.method)) =>
        /\ query.ok
        /\ query.report.max_bits >= 0
        /\ query.report.max_characters >= 0
        /\ query.report.max_text_length = query.report.max_characters - 9
        /\ query.report.max_text_length >= 0

\* a picture with room for every payload that fits the dct carriers, for
\* taking the same text through hide_text_lsb and extract_text_lsb
LsbCarrier == NewRaster("RGB", 16, 16, <<0, 0, 255>>)

\* C30: /stego/hide with method dct, encrypt_text and a non-empty password
\* embeds the payload that hide_text_lsb embeds for the same text, password
\* and salt ("ENCRYPTED:" + ciphertext + delimiter), and /stego/extract
\* with dct answers a (flag, password) pair on that picture as
\* extract_text_lsb answers it on the lsb picture: same acceptance, same
\* text, same error.
C30_DctPathAsLsb ==
    (/\ hide.called /\ Lower(hide.method) = "dct"
     /\ hide.encrypt_text /\ Truthy(hide.password)) =>
        \E salt \in Salts :
            LET carrier == LsbCarrier
                lsb == hide_text_lsb(carrier, hide.secret_text, TRUE,
                                     hide.password, salt)
            IN  /\ hide.payload = lsb.payload
                /\ hide.payload =
                       EncryptedTag
                         \o encrypt(hide.secret_text, hide.password, salt)
                         \o delimiter
                /\ hide.steps[1] = "ENCRYPT" /\ lsb.steps[1] = "ENCRYPT"
                /\ ReadBack =>
                       LET read == extract_text_lsb(lsb.image,
                                                    query.is_encrypted,
                                                    query.password)
                       IN  /\ lsb.ok
                           /\ query.ok = read.ok
                           /\ query.text = read.text
                           /\ query.error = read.error

\* an encrypted text went through dct and came back with its password
C30_Witness ==
    /\ ReadBack /\ Lower(hide.method) = "dct"
    /\ hide.encrypt_text /\ hide.password = "p1"
    /\ hide.secret_text = <<65>>
    /\ query.is_encrypted /\ query.password = "p1"
    /\ query.ok /\ query.text = <<65>>

\* the dct extraction turned a tagged payload down for want of the flag
C30_WitnessRejected ==
    /\ ReadBack /\ Lower(hide.method) = "dct"
    /\ hide.encrypt_text /\ hide.password = "p1"
    /\ ~query.is_encrypted /\ query.password = "p1"
    /\ ~query.ok /\ query.error.cause = "no_password"

====
